---- MODULE Spec2Model ----
(***************************************************************************)
(* A model of the hyperparameter-search training loop of ray-tune:         *)
(* train (src/main.py:50-153), test_accuracy (src/main.py:156-176) and the *)
(* search driver main (src/main.py:179-241).                               *)
(*                                                                         *)
(* Numbers that are floats in the program are kept exact here: a learning  *)
(* rate is held in units of 1/10000, a dropout rate in units of 1/100, and *)
(* a mean or a quotient is a reduced fraction <<numerator, denominator>>.  *)
(* The parameters of a network are one natural number w: 0 for a freshly   *)
(* constructed network, and every optimizer step moves w to w + 1.         *)
(***************************************************************************)
EXTENDS Integers, Sequences, FiniteSets, TLC

\* ------------------------------------------------------------------ bounds

\* The largest num_epochs / max_num_epochs explored.
MaxEpochs == 2
\* len(trainset): the size of the training set that load_data returns.
TrainsetLen == 100
\* The largest len(testset) explored by test_accuracy.
MaxTestLen == 5
\* The largest num_samples explored.
MaxSamples == 2
\* How many times train is called for one trial (the first call included).
MaxRuns == 2

\* ------------------------------------------------------------ exact numbers

RECURSIVE GCD(_, _)
GCD(a, b) == IF b = 0 THEN a ELSE GCD(b, a % b)

\* The fraction n/d, reduced (d > 0, n >= 0).
Rat(n, d) == LET g == GCD(n, d) IN <<n \div g, d \div g>>

RatAdd(x, y) == Rat(x[1] * y[2] + y[1] * x[2], x[2] * y[2])

RatDivInt(x, k) == Rat(x[1], x[2] * k)

RatLess(x, y) == x[1] * y[2] < y[1] * x[2]

RatLeq(x, y) == x[1] * y[2] <= y[1] * x[2]

Zero == Rat(0, 1)

RECURSIVE Pow2(_)
Pow2(k) == IF k = 0 THEN 1 ELSE 2 * Pow2(k - 1)

\* -------------------------------------------------------- the search space

\* A list with one width written twice.
L1ValuesRepeated == <<Pow2(6), Pow2(7), Pow2(8), Pow2(8)>>

L1Values == <<Pow2(6), Pow2(7), Pow2(8), Pow2(9)>>

L2Values == <<Pow2(6), Pow2(7), Pow2(8), Pow2(9)>>

\* 0.0005, 0.001, 0.0007 in units of 1/10000.
LrValues == <<5, 10, 7>>

BatchSizeValues == <<64, 128, 256>>

\* 0.3, 0.5, 0.85 in units of 1/100.
DrValues == <<30, 50, 85>>

\* The config dictionary of main: one grid_search list per key.
MainConfig ==
    [l1 |-> L1Values, l2 |-> L2Values, lr |-> LrValues,
     batch_size |-> BatchSizeValues, dr |-> DrValues]

\* ------------------------------------------------- networks and optimizers

\* MLP(l1, l2, dr): a freshly constructed network, in training mode.
MLP(l1, l2, dr) ==
    [l1 |-> l1, l2 |-> l2, dr |-> dr, wrapped |-> FALSE, training |-> TRUE,
     w |-> 0]

\* nn.DataParallel(net): the same parameters under keys prefixed "module.".
DataParallel(net) == [net EXCEPT !.wrapped = TRUE]

\* The keys of net.state_dict(): their prefix and the layer widths they carry.
Keys(net) ==
    [prefix |-> IF net.wrapped THEN "module." ELSE "", l1 |-> net.l1,
     l2 |-> net.l2]

\* net.state_dict(): the parameters under their keys. The dropout rate and
\* the train/eval mode are not part of it.
state_dict(net) == [keys |-> Keys(net), w |-> net.w]

\* net.load_state_dict(sd) succeeds only when the keys and shapes match.
LoadOK(net, sd) == sd.keys = Keys(net)

load_state_dict(net, sd) == [net EXCEPT !.w = sd.w]

\* net.train() and net.eval(): only the mode changes.
TrainMode(net) == [net EXCEPT !.training = TRUE]

EvalMode(net) == [net EXCEPT !.training = FALSE]

\* optim.Adam(net.parameters(), lr): no step taken yet.
Adam(lr) == [lr |-> lr, step |-> 0]

optimizer_state_dict(opt) ==
    [state |-> [step |-> opt.step], param_groups |-> [lr |-> opt.lr]]

\* A load that keeps the optimizer as constructed.
optimizer_load_nothing(opt, sd) == opt

optimizer_load_state_dict(opt, sd) ==
    [lr |-> sd.param_groups.lr, step |-> sd.state.step]

\* loss.backward(); optimizer.step(): one update of parameters and optimizer.
StepNet(net) == [net EXCEPT !.w = @ + 1]

StepOptimizer(opt) == [opt EXCEPT !.step = @ + 1]

\* ------------------------------------------------------------ data loaders

\* test_abs = int(len(trainset) * 0.8)
TestAbs(len) == (len * 8) \div 10

\* len(DataLoader(dataset, batch_size)): the last batch may be short.
LoaderLen(n, bs) == (n + bs - 1) \div bs

\* The number of samples in batch i (from 0) of a loader over n samples.
BatchLen(n, bs, i) ==
    IF i < LoaderLen(n, bs) - 1 THEN bs ELSE n - (LoaderLen(n, bs) - 1) * bs

\* What one batch can yield: its loss (loss.item(), a small whole number here)
\* and how many of its n samples the network classified correctly.
BatchOutcomes(n) == {[loss |-> 2, correct |-> 0], [loss |-> 1, correct |-> n]}

\* torch.mean(equals.type(torch.FloatTensor)) over a batch of n samples.
BatchMean(correct, n) == Rat(correct, n)

\* ----------------------------------------------------------------- state

VARIABLES
    tr,             \* per trial: the locals of the running call of train
    trial,          \* per trial: the arguments its calls of train are given
    status,         \* per trial: PENDING, RUNNING, TERMINATED or ERROR
    calls,          \* per trial: how many times train has been called
    ckpts,          \* per trial: the checkpoints written, oldest first
    reports,        \* per trial: the epoch of every report sent, oldest first
    last_result,    \* per trial: the metrics of the last report
    mpc,            \* where main is
    mn,             \* the arguments and locals of main
    ta              \* the locals of test_accuracy

vars == <<tr, trial, status, calls, ckpts, reports, last_result, mpc, mn, ta>>

NoConfig == [l1 |-> 0, l2 |-> 0, lr |-> 0, batch_size |-> 0, dr |-> 0]

NoResult ==
    [train_loss |-> Zero, loss |-> Zero, train_accuracy |-> Zero,
     accuracy |-> Zero]

\* A trial before train is called.
IdleTrain ==
    [pc |-> "idle", config |-> NoConfig, checkpoint_dir |-> 0,
     num_epochs |-> 0, net |-> MLP(0, 0, 0), optimizer |-> Adam(0),
     ntrain |-> 0, nval |-> 0, epoch |-> 0, i |-> 0,
     train_epoch_loss |-> 0, train_epoch_acc |-> Zero,
     val_epoch_loss |-> 0, val_epoch_acc |-> Zero,
     accuracy_stats |-> [train |-> <<>>, val |-> <<>>],
     loss_stats |-> [train |-> <<>>, val |-> <<>>]]

Trials == DOMAIN tr

\* --------------------------------------------------------------- train

\* The network train builds for a configuration on a machine with the given
\* number of visible CUDA devices.
TrainNet(cfg, devices) ==
    IF devices > 1 THEN DataParallel(MLP(cfg.l1, cfg.l2, cfg.dr))
    ELSE MLP(cfg.l1, cfg.l2, cfg.dr)

\* train(config, checkpoint_dir, data_dir, num_epochs) up to the epoch loop:
\* build network and optimizer, load the checkpoint when one is given, split
\* the data and make the loaders. checkpoint_dir 0 is None, k > 0 the k-th
\* checkpoint the trial has written. A load that finds other keys than the
\* network's raises, which fails the trial.
TrainCall(t, cfg, ckdir, n, devices) ==
    LET net0 == TrainNet(cfg, devices)
        opt0 == Adam(cfg.lr)
        file == ckpts[t][ckdir].data
        base == [IdleTrain EXCEPT !.config = cfg, !.checkpoint_dir = ckdir,
                                  !.num_epochs = n]
    IN  /\ tr[t].pc \in {"idle", "stopped", "returned"}
        /\ trial' = [trial EXCEPT ![t] = [config |-> cfg, num_epochs |-> n]]
        /\ calls' = [calls EXCEPT ![t] = @ + 1]
        /\ status' = [status EXCEPT ![t] =
                         IF ckdir # 0 /\ ~LoadOK(net0, file[1])
                         THEN "ERROR" ELSE "RUNNING"]
        /\ IF ckdir # 0 /\ ~LoadOK(net0, file[1])
           THEN tr' = [tr EXCEPT ![t] = [base EXCEPT !.pc = "error",
                                                     !.net = net0,
                                                     !.optimizer = opt0]]
           ELSE tr' = [tr EXCEPT ![t] =
                    [base EXCEPT
                       !.pc = "for",
                       !.net = IF ckdir # 0 THEN load_state_dict(net0, file[1])
                               ELSE net0,
                       !.optimizer =
                           IF ckdir # 0
                           THEN optimizer_load_state_dict(opt0, file[2])
                           ELSE opt0,
                       !.ntrain = TestAbs(TrainsetLen),
                       !.nval = TrainsetLen - TestAbs(TrainsetLen)]]
        /\ UNCHANGED <<ckpts, reports, last_result>>

\* A loop that runs one epoch too many: range(1, num_epochs + 2).
EpochLimitOffByOne(n) == n + 1

\* The number of epochs a call with num_epochs = n runs.
EpochLimit(n) == n

\* for epoch in range(1, num_epochs + 1): the next epoch begins (its training
\* accumulators reset, net.train()), or the loop is over and train returns
\* its statistics, which ends the trial.
ForEpoch(t) ==
    /\ tr[t].pc = "for"
    /\ IF tr[t].epoch < EpochLimit(tr[t].num_epochs)
       THEN tr' = [tr EXCEPT ![t].epoch = @ + 1,
                             ![t].train_epoch_loss = 0,
                             ![t].train_epoch_acc = Zero,
                             ![t].net = TrainMode(@),
                             ![t].i = 0,
                             ![t].pc = "train"]
       ELSE tr' = [tr EXCEPT ![t].pc = "returned"]
    /\ status' = [status EXCEPT ![t] = IF tr'[t].pc = "returned"
                                       THEN "TERMINATED" ELSE @]
    /\ UNCHANGED <<trial, calls, ckpts, reports, last_result, mpc, mn, ta>>

\* One iteration of the training loop: forward, backward, optimizer step,
\* then the running loss and accuracy.
TrainBatch(t) ==
    LET s == tr[t]
        n == BatchLen(s.ntrain, s.config.batch_size, s.i)
    IN  /\ s.pc = "train"
        /\ s.i < LoaderLen(s.ntrain, s.config.batch_size)
        /\ \E o \in BatchOutcomes(n) :
             tr' = [tr EXCEPT
                      ![t].net = StepNet(@),
                      ![t].optimizer = StepOptimizer(@),
                      ![t].train_epoch_loss = @ + o.loss,
                      ![t].train_epoch_acc = RatAdd(@, BatchMean(o.correct, n)),
                      ![t].i = @ + 1]
        /\ UNCHANGED <<trial, status, calls, ckpts, reports, last_result, mpc, mn,
                   ta>>

\* The training loader is exhausted: the validation accumulators are reset
\* and the network is put in evaluation mode.
ValBegin(t) ==
    /\ tr[t].pc = "train"
    /\ tr[t].i = LoaderLen(tr[t].ntrain, tr[t].config.batch_size)
    /\ tr' = [tr EXCEPT ![t].val_epoch_loss = 0,
                        ![t].val_epoch_acc = Zero,
                        ![t].net = EvalMode(@),
                        ![t].i = 0,
                        ![t].pc = "val"]
    /\ UNCHANGED <<trial, status, calls, ckpts, reports, last_result, mpc, mn,
                   ta>>

\* A validation loop that also updates the parameters.
ValNetUpdates(net) == StepNet(net)

\* The network after one iteration of the validation loop.
ValNet(net) == net

\* One iteration of the validation loop, under torch.no_grad().
ValBatch(t) ==
    LET s == tr[t]
        n == BatchLen(s.nval, s.config.batch_size, s.i)
    IN  /\ s.pc = "val"
        /\ s.i < LoaderLen(s.nval, s.config.batch_size)
        /\ \E o \in BatchOutcomes(n) :
             tr' = [tr EXCEPT
                      ![t].net = ValNet(@),
                      ![t].val_epoch_acc = RatAdd(@, BatchMean(o.correct, n)),
                      ![t].val_epoch_loss = @ + o.loss,
                      ![t].i = @ + 1]
        /\ UNCHANGED <<trial, status, calls, ckpts, reports, last_result, mpc, mn,
                   ta>>

\* A step index counted from 0 while the epochs are counted from 1.
CheckpointStepFromZero(epoch) == epoch - 1

\* The step index train gives the checkpoint of an epoch.
CheckpointStep(epoch) == epoch

\* A save that writes the state of a new optimizer, not of the one in use.
CheckpointDataNewOptimizer(net, opt) ==
    <<state_dict(net), optimizer_state_dict(Adam(opt.lr))>>

\* What torch.save writes: (net.state_dict(), optimizer.state_dict()).
CheckpointData(net, opt) == <<state_dict(net), optimizer_state_dict(opt)>>

\* with tune.checkpoint_dir(epoch): torch.save(...)
Checkpoint(t) ==
    /\ tr[t].pc = "val"
    /\ tr[t].i = LoaderLen(tr[t].nval, tr[t].config.batch_size)
    /\ ckpts' = [ckpts EXCEPT ![t] =
                   Append(@, [step |-> CheckpointStep(tr[t].epoch),
                              data |-> CheckpointData(tr[t].net,
                                                      tr[t].optimizer)])]
    /\ tr' = [tr EXCEPT ![t].pc = "report"]
    /\ UNCHANGED <<trial, status, calls, reports, last_result, mpc, mn, ta>>

\* The metrics of an epoch: each sum divided by the length of its loader.
EpochResult(s) ==
    LET nt == LoaderLen(s.ntrain, s.config.batch_size)
        nv == LoaderLen(s.nval, s.config.batch_size)
    IN  [train_loss |-> Rat(s.train_epoch_loss, nt),
         loss |-> Rat(s.val_epoch_loss, nv),
         train_accuracy |-> RatDivInt(s.train_epoch_acc, nt),
         accuracy |-> RatDivInt(s.val_epoch_acc, nv)]

\* The statistics are appended and tune.report is called; train then waits in
\* tune.report for the tuner to let it continue.
Report(t) ==
    LET r == EpochResult(tr[t])
    IN  /\ tr[t].pc = "report"
        /\ tr' = [tr EXCEPT
                    ![t].loss_stats =
                        [train |-> Append(@.train, r.train_loss),
                         val |-> Append(@.val, r.loss)],
                    ![t].accuracy_stats =
                        [train |-> Append(@.train, r.train_accuracy),
                         val |-> Append(@.val, r.accuracy)],
                    ![t].pc = "reported"]
        /\ reports' = [reports EXCEPT ![t] = Append(@, tr[t].epoch)]
        /\ last_result' = [last_result EXCEPT ![t] = r]
        /\ UNCHANGED <<trial, status, calls, ckpts, mpc, mn, ta>>

\* --------------------------------------------------- the tuner, per trial

\* training_iteration: the number of results the trial has reported.
Iteration(t) == Len(reports[t])

\* A trial whose call of train was stopped keeps no locals.
Ended(pc) == [IdleTrain EXCEPT !.pc = pc]

\* The tuner lets the trial go on: tune.report returns. A scheduler with an
\* iteration limit max_t (0: none) does not let a trial go past it.
Continue(t) ==
    /\ tr[t].pc = "reported"
    /\ mn.max_t = 0 \/ Iteration(t) < mn.max_t
    /\ tr' = [tr EXCEPT ![t].pc = "for"]
    /\ UNCHANGED <<trial, status, calls, ckpts, reports, last_result, mpc, mn, ta>>

\* The scheduler stops the trial on the result it has just reported: train
\* never leaves tune.report.
Stop(t) ==
    /\ tr[t].pc = "reported"
    /\ Iteration(t) >= mn.grace_period
    /\ tr' = [tr EXCEPT ![t] = Ended("stopped")]
    /\ status' = [status EXCEPT ![t] = "TERMINATED"]
    /\ UNCHANGED <<trial, calls, ckpts, reports, last_result, mpc, mn, ta>>

\* ------------------------------------------- train called directly

\* The configurations train is called with directly: the first of the grid,
\* with each of the first two batch sizes.
DirectConfigs ==
    {[l1 |-> L1Values[1], l2 |-> L2Values[1], lr |-> LrValues[1],
      batch_size |-> BatchSizeValues[b], dr |-> DrValues[1]] : b \in 1..2}

\* The numbers of CUDA devices a call of train may see.
DeviceCounts == {1, 2}

\* train(config, num_epochs = n) without a checkpoint.
CallFresh(t) ==
    /\ mpc = "none"
    /\ status[t] = "PENDING"
    /\ \E cfg \in DirectConfigs, n \in 0..MaxEpochs, d \in DeviceCounts :
         TrainCall(t, cfg, 0, n, d)
    /\ UNCHANGED <<mpc, mn, ta>>

\* train is called again for a trial whose earlier call was stopped or has
\* returned, with the same arguments and one of the trial's checkpoints.
CallResume(t) ==
    /\ mpc = "none"
    /\ status[t] = "TERMINATED"
    /\ calls[t] < MaxRuns
    /\ \E k \in 1..Len(ckpts[t]), d \in DeviceCounts :
         TrainCall(t, trial[t].config, k, trial[t].num_epochs, d)
    /\ UNCHANGED <<mpc, mn, ta>>

\* ------------------------------------------------------- test_accuracy

\* batch_size of the test loader.
TestBatchSize == 4

IdleTest ==
    [pc |-> "idle", net |-> MLP(0, 0, 0), n |-> 0, equals |-> <<>>, i |-> 0,
     val_epoch_acc |-> Zero, result |-> Zero]

\* How many of the samples of batch i (from 0) are classified correctly.
BatchCorrect(equals, n, bs, i) ==
    Cardinality({k \in (i * bs + 1)..(i * bs + BatchLen(n, bs, i)) : equals[k]})

\* test_accuracy(net) up to its loop: the test set is loaded (n samples, of
\* which the network classifies those with equals[k] correctly), the
\* accumulator is reset and the network is put in evaluation mode.
TestAccuracyCall(net) ==
    /\ ta.pc = "idle"
    /\ \E n \in 1..MaxTestLen :
         \E eq \in [1..n -> BOOLEAN] :
            ta' = [IdleTest EXCEPT !.pc = "loop",
                                   !.net = EvalMode(net),
                                   !.n = n, !.equals = eq]

\* One iteration of the loop over the test loader.
TestBatch ==
    LET n == BatchLen(ta.n, TestBatchSize, ta.i)
        c == BatchCorrect(ta.equals, ta.n, TestBatchSize, ta.i)
    IN  /\ ta.pc = "loop"
        /\ ta.i < LoaderLen(ta.n, TestBatchSize)
        /\ ta' = [ta EXCEPT !.val_epoch_acc = RatAdd(@, BatchMean(c, n)),
                            !.i = @ + 1]
        /\ UNCHANGED <<tr, trial, status, calls, ckpts, reports, last_result,
                       mpc, mn>>

\* return val_epoch_acc.item() / len(testloader)
TestReturn ==
    /\ ta.pc = "loop"
    /\ ta.i = LoaderLen(ta.n, TestBatchSize)
    /\ ta' = [ta EXCEPT !.result = RatDivInt(ta.val_epoch_acc,
                                             LoaderLen(ta.n, TestBatchSize)),
                        !.pc = "returned"]
    /\ UNCHANGED <<tr, trial, status, calls, ckpts, reports, last_result,
                   mpc, mn>>

\* test_accuracy called directly, on a network with the default widths.
CallTest ==
    /\ mpc = "none"
    /\ TestAccuracyCall(MLP(256, 64, 25))
    /\ UNCHANGED <<tr, trial, status, calls, ckpts, reports, last_result,
                   mpc, mn>>

\* ---------------------------------------------------------------- main

\* The number of configurations of a search space.
GridSize(space) ==
    Len(space.l1) * Len(space.l2) * Len(space.lr) * Len(space.batch_size)
        * Len(space.dr)

\* The k-th (from 1) trial configuration of tune.run(config = space,
\* num_samples): the grid, repeated num_samples times.
Variant(space, k) ==
    LET v == (k - 1) % GridSize(space)
        a == v % Len(space.l1)
        vb == v \div Len(space.l1)
        b == vb % Len(space.l2)
        vc == vb \div Len(space.l2)
        c == vc % Len(space.lr)
        vd == vc \div Len(space.lr)
        d == vd % Len(space.batch_size)
        e == vd \div Len(space.batch_size)
    IN  [l1 |-> space.l1[a + 1], l2 |-> space.l2[b + 1],
         lr |-> space.lr[c + 1], batch_size |-> space.batch_size[d + 1],
         dr |-> space.dr[e + 1]]

NumTrials(space, num_samples) == GridSize(space) * num_samples

\* grace_period of the scheduler main builds.
GracePeriod == 1

\* The iteration limit max_t of the scheduler main builds.
MaxT(max_num_epochs) == max_num_epochs

\* A num_epochs one short of the scheduler's limit.
MainNumEpochsShort(max_num_epochs) == max_num_epochs - 1

\* The num_epochs main passes to train.
MainNumEpochs(max_num_epochs) == max_num_epochs

\* main up to tune.run: the search space and the scheduler are built. The
\* scheduler refuses an iteration limit below its grace period.
MainStart ==
    /\ mpc = "start"
    /\ IF MaxT(mn.max_num_epochs) < GracePeriod
       THEN /\ mpc' = "error"
            /\ mn' = mn
       ELSE /\ mpc' = "run"
            /\ mn' = [mn EXCEPT !.max_t = MaxT(mn.max_num_epochs),
                                !.grace_period = GracePeriod]
    /\ UNCHANGED <<tr, trial, status, calls, ckpts, reports, last_result, ta>>

\* The CUDA devices a trial given gpus_per_trial GPUs sees.
TrialDevices(gpus_per_trial) == gpus_per_trial

\* tune.run starts the next trial of the sweep: train is called with the
\* trial's configuration, no checkpoint and num_epochs = max_num_epochs.
StartTrial(t) ==
    /\ mpc = "run"
    /\ t = mn.created + 1
    /\ t <= NumTrials(mn.config, mn.num_samples)
    /\ TrainCall(t, Variant(mn.config, t), 0,
                 MainNumEpochs(mn.max_num_epochs),
                 TrialDevices(mn.gpus_per_trial))
    /\ mn' = [mn EXCEPT !.created = t]
    /\ UNCHANGED <<mpc, ta>>

\* The trials that have reported a result.
Reported == {t \in Trials : Len(reports[t]) > 0}

\* Whether score x is strictly better than score y under the mode.
Better(mode, x, y) == IF mode = "min" THEN RatLess(x, y) ELSE RatLess(y, x)

\* result.get_best_trial(metric, mode, "last"): the first trial whose last
\* reported value of the metric no other trial's is better than; 0 (None)
\* when no trial has reported.
GetBestTrial(metric, mode) ==
    IF Reported = {} THEN 0
    ELSE CHOOSE t \in Reported :
           \A u \in Reported :
              /\ ~Better(mode, last_result[u][metric], last_result[t][metric])
              /\ last_result[u][metric] = last_result[t][metric] => t <= u

\* The selection with the mode mistaken: the trial of highest loss.
BestTrialMax == GetBestTrial("loss", "max")

\* best_trial = result.get_best_trial("loss", "min", "last")
BestTrial == GetBestTrial("loss", "min")

\* tune.run has returned (every trial of the sweep is over): the best trial
\* is selected and its configuration and last result are printed.
SelectBest ==
    /\ mpc = "run"
    /\ mn.created = NumTrials(mn.config, mn.num_samples)
    /\ \A t \in Trials : status[t] \in {"TERMINATED", "ERROR"}
    /\ mn' = [mn EXCEPT !.best_trial = BestTrial]
    /\ mpc' = IF BestTrial = 0 THEN "error" ELSE "build"
    /\ UNCHANGED <<tr, trial, status, calls, ckpts, reports, last_result, ta>>

\* The network main builds for the best trial's configuration.
BestNet(cfg, cuda_available, gpus_per_trial) ==
    IF cuda_available /\ gpus_per_trial > 1
    THEN DataParallel(MLP(cfg.l1, cfg.l2, cfg.dr))
    ELSE MLP(cfg.l1, cfg.l2, cfg.dr)

\* best_trial.checkpoint.value: the checkpoint the trial wrote last.
BestCheckpoint(t) == ckpts[t][Len(ckpts[t])]

\* The best model is built and the best trial's last checkpoint is loaded
\* into it.
LoadBest ==
    LET net0 == BestNet(trial[mn.best_trial].config, mn.cuda_available,
                        mn.gpus_per_trial)
        model_state == BestCheckpoint(mn.best_trial).data[1]
    IN  /\ mpc = "build"
        /\ IF LoadOK(net0, model_state)
           THEN /\ mn' = [mn EXCEPT !.best_trained_model =
                                       load_state_dict(net0, model_state)]
                /\ mpc' = "test"
           ELSE /\ mn' = [mn EXCEPT !.best_trained_model = net0]
                /\ mpc' = "error"
        /\ UNCHANGED <<tr, trial, status, calls, ckpts, reports, last_result,
                       ta>>

\* test_acc = test_accuracy(best_trained_model, device)
MainTest ==
    /\ mpc = "test"
    /\ TestAccuracyCall(mn.best_trained_model)
    /\ mn' = [mn EXCEPT !.best_trained_model = EvalMode(@)]
    /\ mpc' = "testing"
    /\ UNCHANGED <<tr, trial, status, calls, ckpts, reports, last_result>>

\* test_accuracy has returned: the test set accuracy is printed.
MainDone ==
    /\ mpc = "testing"
    /\ ta.pc = "returned"
    /\ mn' = [mn EXCEPT !.test_acc = ta.result]
    /\ mpc' = "done"
    /\ UNCHANGED <<tr, trial, status, calls, ckpts, reports, last_result, ta>>

\* ------------------------------------------------------ specifications

NoMain ==
    [num_samples |-> 0, max_num_epochs |-> 0, gpus_per_trial |-> 0,
     cuda_available |-> FALSE, config |-> MainConfig, max_t |-> 0,
     grace_period |-> GracePeriod, created |-> 0, best_trial |-> 0,
     best_trained_model |-> MLP(0, 0, 0), test_acc |-> Zero]

InitTrials(n) ==
    /\ tr = [t \in 1..n |-> IdleTrain]
    /\ trial = [t \in 1..n |-> [config |-> NoConfig, num_epochs |-> 0]]
    /\ status = [t \in 1..n |-> "PENDING"]
    /\ calls = [t \in 1..n |-> 0]
    /\ ckpts = [t \in 1..n |-> <<>>]
    /\ reports = [t \in 1..n |-> <<>>]
    /\ last_result = [t \in 1..n |-> NoResult]
    /\ ta = IdleTest

\* One trial whose train is called directly, under a tuner that may stop it
\* at any report and has no iteration limit; train may be called again with a
\* checkpoint.
Init ==
    /\ InitTrials(1)
    /\ mpc = "none"
    /\ mn = NoMain

Next ==
    \/ \E t \in Trials : CallFresh(t)
    \/ \E t \in Trials : CallResume(t)
    \/ \E t \in Trials : ForEpoch(t)
    \/ \E t \in Trials : TrainBatch(t)
    \/ \E t \in Trials : ValBegin(t)
    \/ \E t \in Trials : ValBatch(t)
    \/ \E t \in Trials : Checkpoint(t)
    \/ \E t \in Trials : Report(t)
    \/ \E t \in Trials : Continue(t)
    \/ \E t \in Trials : Stop(t)

Spec == Init /\ [][Next]_vars

\* The part of the search space the sweep is run over.
SweepConfig ==
    [l1 |-> SubSeq(L1Values, 1, 1), l2 |-> SubSeq(L2Values, 1, 1),
     lr |-> SubSeq(LrValues, 1, 1),
     batch_size |-> SubSeq(BatchSizeValues, 1, 2),
     dr |-> SubSeq(DrValues, 1, 1)]

\* main(num_samples, max_num_epochs, gpus_per_trial) over SweepConfig. With
\* num_epochs = max_t the scheduler stops every trial at a report, at the
\* latest at the one numbered max_t, so no call of train returns.
InitSweep ==
    /\ InitTrials(NumTrials(SweepConfig, 1))
    /\ mpc = "start"
    /\ \E e \in 0..MaxEpochs, g \in {1, 2}, c \in BOOLEAN :
         mn = [NoMain EXCEPT !.num_samples = 1, !.max_num_epochs = e,
                             !.gpus_per_trial = g, !.cuda_available = c,
                             !.config = SweepConfig]

NextSweep ==
    \/ MainStart
    \/ \E t \in Trials : StartTrial(t)
    \/ \E t \in Trials : ForEpoch(t)
    \/ \E t \in Trials : TrainBatch(t)
    \/ \E t \in Trials : ValBegin(t)
    \/ \E t \in Trials : ValBatch(t)
    \/ \E t \in Trials : Checkpoint(t)
    \/ \E t \in Trials : Report(t)
    \/ \E t \in Trials : Continue(t)
    \/ \E t \in Trials : Stop(t)
    \/ SelectBest
    \/ LoadBest
    \/ MainTest
    \/ TestBatch
    \/ TestReturn
    \/ MainDone

SpecSweep == InitSweep /\ [][NextSweep]_vars

\* main over the whole search space, up to the start of its trials.
InitGrid ==
    /\ mpc = "start"
    /\ \E s \in 1..MaxSamples :
         /\ InitTrials(NumTrials(MainConfig, s))
         /\ mn = [NoMain EXCEPT !.num_samples = s, !.max_num_epochs = 1]

NextGrid ==
    \/ MainStart
    \/ \E t \in Trials : StartTrial(t)

SpecGrid == InitGrid /\ [][NextGrid]_vars

\* test_accuracy called directly.
InitAcc ==
    /\ InitTrials(1)
    /\ mpc = "none"
    /\ mn = NoMain

NextAcc ==
    \/ CallTest
    \/ TestBatch
    \/ TestReturn

SpecAcc == InitAcc /\ [][NextAcc]_vars

\* ------------------------------------------------------------ properties

\* The positions of a call of train that is under way.
Running == {"for", "train", "val", "report", "reported", "returned"}

\* The positions at which the current epoch's checkpoint has been written.
Saved == {"report", "reported", "for", "returned"}

\* The length of the training loader of a call.
NTB(s) == LoaderLen(s.ntrain, s.config.batch_size)

\* The sequence <<1, ..., n>>.
UpTo(n) == [k \in 1..n |-> k]

\* How many epochs the call has completed (checkpoint and report included).
Completed(s) == IF s.pc \in {"reported", "for", "returned"} THEN s.epoch
                ELSE s.epoch - 1

\* C1: a call of train(config, num_epochs = N) that starts without a
\* checkpoint never is in an epoch numbered above N; its epochs are numbered
\* 1, 2, ... in increasing order; in every epoch the whole training pass comes
\* before the validation pass; and when it returns it has run exactly N
\* training passes and N validation passes, written N checkpoints and sent N
\* reports (none of either for N = 0).
C1_FixedEpochs ==
    \A t \in Trials :
       LET s == tr[t]
       IN  (s.pc \in Running /\ s.checkpoint_dir = 0) =>
             /\ s.epoch <= s.num_epochs
             /\ s.pc \in {"train", "val", "report", "reported"} => s.epoch >= 1
             /\ reports[t] = UpTo(Completed(s))
             /\ s.pc = "train" => s.optimizer.step = (s.epoch - 1) * NTB(s) + s.i
             /\ s.pc \in {"val", "report", "reported"} =>
                   s.optimizer.step = s.epoch * NTB(s)
             /\ Len(s.loss_stats.val) = Completed(s)
             /\ Len(s.loss_stats.train) = Completed(s)
             /\ s.pc = "returned" =>
                   /\ s.epoch = s.num_epochs
                   /\ s.optimizer.step = s.num_epochs * NTB(s)
                   /\ Len(s.accuracy_stats.val) = s.num_epochs
                   /\ Len(ckpts[t]) = s.num_epochs
                   /\ reports[t] = UpTo(s.num_epochs)

\* A fresh call with num_epochs = MaxEpochs has returned.
C1_Witness ==
    \E t \in Trials :
       /\ tr[t].pc = "returned"
       /\ tr[t].checkpoint_dir = 0
       /\ tr[t].num_epochs = MaxEpochs
       /\ Len(reports[t]) = MaxEpochs

\* C2: in a fresh run of train, once epoch e has completed exactly e
\* checkpoints have been written, with step indices 1..e, and the checkpoint
\* of step k holds the model state and the optimizer state as they are after
\* the training pass of epoch k: k passes over the training loader, and
\* nothing after them.
C2_CheckpointPerEpoch ==
    \A t \in Trials :
       LET s == tr[t]
       IN  (s.pc \in Running /\ s.checkpoint_dir = 0) =>
             /\ Len(ckpts[t]) = IF s.pc \in Saved THEN s.epoch ELSE s.epoch - 1
             /\ \A k \in 1..Len(ckpts[t]) :
                   /\ ckpts[t][k].step = k
                   /\ ckpts[t][k].data[1] =
                         [keys |-> Keys(s.net), w |-> k * NTB(s)]
                   /\ ckpts[t][k].data[2] =
                         [state |-> [step |-> k * NTB(s)],
                          param_groups |-> [lr |-> s.config.lr]]
             /\ s.pc \in {"report", "reported"} =>
                   ckpts[t][s.epoch].data =
                      <<state_dict(s.net), optimizer_state_dict(s.optimizer)>>

\* A fresh run has completed its second epoch, over a loader of two batches.
C2_Witness ==
    \E t \in Trials :
       /\ tr[t].pc = "reported"
       /\ tr[t].checkpoint_dir = 0
       /\ tr[t].epoch = 2
       /\ NTB(tr[t]) = 2
       /\ Len(ckpts[t]) = 2

\* C3: train sends one report per epoch and writes the epoch's checkpoint
\* before it: the reports never outnumber the checkpoints, a checkpoint is
\* ahead of the reports only between an epoch's save and its report, and
\* whenever the trial waits in a report or has been stopped at one, its
\* latest checkpoint carries the epoch number of its last report.
C3_CheckpointBeforeReport ==
    \A t \in Trials :
       LET s == tr[t]
       IN  /\ Len(reports[t]) <= Len(ckpts[t])
           /\ IF s.pc = "report"
              THEN /\ Len(ckpts[t]) = Len(reports[t]) + 1
                   /\ ckpts[t][Len(ckpts[t])].step = s.epoch
              ELSE /\ Len(ckpts[t]) = Len(reports[t])
                   /\ Len(reports[t]) > 0 =>
                         ckpts[t][Len(ckpts[t])].step =
                            reports[t][Len(reports[t])]
           /\ s.pc = "reported" => reports[t][Len(reports[t])] = s.epoch
           /\ (s.pc \in Running /\ s.checkpoint_dir = 0) =>
                 Len(reports[t]) = Completed(s)

\* A trial has been stopped at the report of its second epoch.
C3_Witness ==
    \E t \in Trials :
       /\ tr[t].pc = "stopped"
       /\ status[t] = "TERMINATED"
       /\ Len(reports[t]) = 2
       /\ ckpts[t][2].step = 2

\* The positions of a call before its first training step.
BeforeFirstStep(s) ==
    \/ s.pc = "for" /\ s.epoch = 0
    \/ s.pc = "train" /\ s.epoch = 1 /\ s.i = 0

\* C4: when train is called with a checkpoint the trial wrote in an earlier
\* run with the same configuration, the model state and the optimizer state
\* before the first training step are the ones saved in that checkpoint.
C4_CheckpointRoundTrip ==
    \A t \in Trials :
       LET s == tr[t]
       IN  (s.checkpoint_dir # 0 /\ BeforeFirstStep(s)) =>
             /\ state_dict(s.net) = ckpts[t][s.checkpoint_dir].data[1]
             /\ optimizer_state_dict(s.optimizer) =
                   ckpts[t][s.checkpoint_dir].data[2]

\* A resumed call is about to take its first training step, from the
\* checkpoint of the second epoch of the earlier run.
C4_Witness ==
    \E t \in Trials :
       /\ tr[t].checkpoint_dir = 2
       /\ tr[t].pc = "train"
       /\ tr[t].epoch = 1
       /\ tr[t].i = 0
       /\ tr[t].net.w > 0
       /\ tr[t].optimizer.step > 0

\* How many checkpoints the call under way has written.
Written(s) == IF s.pc \in Saved THEN s.epoch ELSE s.epoch - 1

\* The call under way was given the checkpoint that was the trial's latest
\* when it was called.
ResumedFromLatest(t) ==
    /\ tr[t].pc \in Running
    /\ tr[t].checkpoint_dir # 0
    /\ tr[t].checkpoint_dir = Len(ckpts[t]) - Written(tr[t])

\* C5: when a run of train that ended after epoch k is followed by a call
\* with the checkpoint of epoch k, the resumed run goes on with epoch k + 1:
\* its epochs are numbered above k, the training passes applied to the model
\* over both runs are at most num_epochs, and the step indices of the
\* trial's checkpoints and the epochs of its reports keep increasing.
C5_ResumeContinues ==
    \A t \in Trials :
       LET s == tr[t]
       IN  ResumedFromLatest(t) =>
             /\ s.epoch >= 1 => s.epoch > ckpts[t][s.checkpoint_dir].step
             /\ s.optimizer.step <= s.num_epochs * NTB(s)
             /\ \A j \in 2..Len(ckpts[t]) :
                   ckpts[t][j - 1].step < ckpts[t][j].step
             /\ \A j \in 2..Len(reports[t]) :
                   reports[t][j - 1] < reports[t][j]

\* C6: in the sweep of main no trial reports more than max_num_epochs times
\* and a trial that is over has reported at least once; a trial is stopped
\* only while it waits in a report; and a trial that is over takes no
\* further training step, writes no further checkpoint and sends no further
\* report.
C6_SchedulerBounds ==
    /\ [](\A t \in Trials :
             /\ Len(reports[t]) <= mn.max_num_epochs
             /\ status[t] = "TERMINATED" =>
                   /\ Len(reports[t]) >= 1
                   /\ tr[t].pc \in {"stopped", "returned"})
    /\ [][\A t \in Trials :
             /\ (tr[t].pc # "stopped" /\ tr'[t].pc = "stopped") =>
                   tr[t].pc = "reported"
             /\ status[t] = "TERMINATED" =>
                   /\ status'[t] = "TERMINATED"
                   /\ tr'[t] = tr[t]
                   /\ ckpts'[t] = ckpts[t]
                   /\ reports'[t] = reports[t]
                   /\ last_result'[t] = last_result[t]]_vars

\* In a sweep with max_num_epochs = 2, one trial has been stopped at its
\* first report and another has run to the end.
C6_Witness ==
    /\ mn.max_num_epochs = 2
    /\ \E t, u \in Trials :
          /\ tr[t].pc = "stopped" /\ Len(reports[t]) = 1
          /\ status[u] = "TERMINATED" /\ Len(reports[u]) = 2

\* main has selected the best trial.
Selected == mpc \in {"build", "test", "testing", "done"}

\* main has loaded the best trial's checkpoint.
Loaded == mpc \in {"test", "testing", "done"}

\* C7: the trial main selects has a last reported validation loss that no
\* trial's is below; the model main evaluates is built with that trial's l1,
\* l2 and dr and holds the parameters of that trial's latest checkpoint; and
\* every trial that has reported has a checkpoint.
C7_BestTrial ==
    /\ \A t \in Reported : Len(ckpts[t]) > 0
    /\ Selected =>
          /\ mn.best_trial \in Reported
          /\ \A u \in Reported :
                RatLeq(last_result[mn.best_trial].loss, last_result[u].loss)
    /\ Loaded =>
          LET b == mn.best_trial
              m == mn.best_trained_model
          IN  /\ m.l1 = trial[b].config.l1
              /\ m.l2 = trial[b].config.l2
              /\ m.dr = trial[b].config.dr
              /\ state_dict(m) = ckpts[b][Len(ckpts[b])].data[1]
              /\ mpc \in {"testing", "done"} =>
                    /\ state_dict(ta.net) = state_dict(m)
                    /\ ta.net.dr = m.dr

\* main is done, and the trial it selected was stopped early with a loss
\* strictly below that of a trial that ran longer.
C7_Witness ==
    /\ mpc = "done"
    /\ tr[mn.best_trial].pc = "stopped"
    /\ \E u \in Reported :
          /\ RatLess(last_result[mn.best_trial].loss, last_result[u].loss)
          /\ Len(reports[u]) > Len(reports[mn.best_trial])

\* The grid the sweep is documented to cover (lr and dr in the units above).
DocumentedGrid ==
    [l1 : {64, 128, 256, 512}, l2 : {64, 128, 256, 512}, lr : {5, 10, 7},
     batch_size : {64, 128, 256}, dr : {30, 50, 85}]

\* The trials started so far with configuration c.
StartedWith(c) == {t \in 1..mn.created : trial[t].config = c}

\* C8: every trial the sweep starts has a configuration of the grid, no
\* configuration is started more than num_samples times, and once the sweep
\* has started all its trials every configuration of the grid has been
\* started exactly num_samples times, 432 * num_samples trials in all.
C8_GridSearch ==
    /\ \A t \in 1..mn.created : trial[t].config \in DocumentedGrid
    /\ mn.created > 0 =>
          Cardinality(StartedWith(trial[mn.created].config)) <= mn.num_samples
    /\ mn.created <= 432 * mn.num_samples
    /\ (mpc = "run" /\ mn.created = NumTrials(mn.config, mn.num_samples)) =>
          /\ mn.created = 432 * mn.num_samples
          /\ \A c \in DocumentedGrid :
                Cardinality(StartedWith(c)) = mn.num_samples

\* A sweep with num_samples = 2 has started its last trial.
C8_Witness ==
    /\ mpc = "run"
    /\ mn.num_samples = 2
    /\ mn.created = 864
    /\ status[864] = "RUNNING"

\* The number of test samples the network classified correctly.
TestCorrect == Cardinality({k \in 1..ta.n : ta.equals[k]})

\* C9: the value test_accuracy returns is the fraction of the test samples
\* the model classified correctly, whatever the size of the test set.
C9_AccuracyIsFraction ==
    ta.pc = "returned" => ta.result = Rat(TestCorrect, ta.n)

\* What a step leaves of a trial's parameters and optimizer state.
SameState(t) ==
    /\ state_dict(tr'[t].net) = state_dict(tr[t].net)
    /\ tr'[t].optimizer = tr[t].optimizer

\* C10: of the steps of an epoch only those of the training pass change the
\* model parameters or the optimizer state: the validation pass, the save,
\* the report and the wait in it change neither, so that the checkpoint of
\* an epoch holds the state its validation metrics were computed on; and
\* test_accuracy leaves the parameters of the model it is given unchanged.
C10_OnlyTrainingUpdates ==
    /\ [][/\ \A t \in Trials :
                /\ (tr[t].pc \in {"val", "report"} /\ tr'[t].pc # "stopped")
                      => SameState(t)
                /\ (tr[t].pc = "reported" /\ tr'[t].pc = "for")
                      => SameState(t)
                /\ (tr[t].pc = "train" /\ tr'[t].pc = "val") => SameState(t)
                /\ (tr[t].pc = "for" /\ tr'[t].pc \in {"train", "returned"})
                      => SameState(t)
          /\ mpc \in {"testing"} =>
                state_dict(mn.best_trained_model') =
                   state_dict(mn.best_trained_model)
          /\ (ta.pc # "idle" /\ ta'.pc # "idle") =>
                state_dict(ta'.net) = state_dict(ta.net)
          /\ (mpc = "test" /\ mpc' = "testing") =>
                /\ state_dict(ta'.net) = state_dict(mn.best_trained_model)
                /\ state_dict(mn.best_trained_model') =
                      state_dict(mn.best_trained_model)]_vars
    /\ [](\A t \in Trials :
             tr[t].pc \in {"val", "report", "reported"} =>
                /\ tr[t].net.w = tr[t].epoch * NTB(tr[t])
                /\ tr[t].optimizer.step = tr[t].net.w
                /\ tr[t].pc # "val" =>
                      ckpts[t][Len(ckpts[t])].data =
                         <<state_dict(tr[t].net),
                           optimizer_state_dict(tr[t].optimizer)>>)

\* main has evaluated a model loaded from a checkpoint, after a sweep in
\* which a trial ran two epochs.
C10_Witness ==
    /\ mpc = "done"
    /\ ta.pc = "returned"
    /\ ta.net.w > 0
    /\ \E t \in Trials : Len(reports[t]) = 2

====
